---- MODULE Spec2Model ----
(***************************************************************************)
(* The cluster-deploy controller of rancher (package clusterdeploy):       *)
(* sync / doSync / deployAgent / redeployAgent, the two process-wide       *)
(* caches (agentImages, controlPlaneTaints) and the collaborators they     *)
(* talk to (the stored cluster object, the node lister, the downstream     *)
(* cluster's workloads, kubectl).                                          *)
(***************************************************************************)
EXTENDS Naturals, Sequences, FiniteSets, TLC

VARIABLES
  store,               \* the API server's cluster objects, by cluster name
  nodes,               \* the node lister's nodes, by cluster name
  remote,              \* the downstream cluster's agent workloads, by cluster name
  agentImages,         \* the image cache: [nodeImage, clusterImage], each a map name -> image
  controlPlaneTaints,  \* the taint cache: a map name -> list of taints
  serverURL,           \* settings.ServerURL
  pc,                  \* each worker's position in sync
  pass,                \* each worker's locals (and what the pass did so far)
  hist,                \* what earlier passes established, by cluster name
  budget               \* how many passes / outside changes are still allowed

vars == <<store, nodes, remote, agentImages, controlPlaneTaints, serverURL,
          pc, pass, hist, budget>>

----------------------------------------------------------------------------
(* Bounds of the model *)

MaxPasses == 3
MaxEnv == 1
MaxNodes == 2
MaxFollowingPasses == 1

(* Program constants *)

ApplyAttempts == 5

AgentForceDeployAnn == "io.cattle.agent.force.deploy"
nodeImage == "nodeImage"
clusterImage == "clusterImage"
ClusterDriverRKE == "rancherKubernetesEngine"
ClusterDriverImported == "imported"

(* settings.AgentImage / settings.AuthImage, and the values a user may ask for *)
SettingsAgentImage == "rancher-agent:v1"
SettingsAuthImage == "kube-api-auth:v1"
OtherAgentImage == "rancher-agent:v2"

NoRepo == "nil"
NilEnv == "nil"
NoAnn == "absent"

----------------------------------------------------------------------------
(* Maps string -> bool; Go tells a nil map from an empty one under
   reflect.DeepEqual, and reads a missing key as false. *)

NilMap == [isNil |-> TRUE, m |-> <<>>]
EmptyMap == [isNil |-> FALSE, m |-> <<>>]
MapOf(k, v) == [isNil |-> FALSE, m |-> [x \in {k} |-> v]]
MapGet(mp, k) == IF k \in DOMAIN mp.m THEN mp.m[k] ELSE FALSE

agentFeaturesChangedOneWay(desired, actual) ==
  \E k \in DOMAIN desired.m : MapGet(actual, k) # desired.m[k]

agentFeaturesChanged(desired, actual) ==
  \/ \E k \in DOMAIN desired.m : MapGet(actual, k) # desired.m[k]
  \/ \E k \in DOMAIN actual.m : MapGet(desired, k) # actual.m[k]

----------------------------------------------------------------------------
(* Taints and nodes *)

Taint(k, v, e) == [key |-> k, value |-> v, effect |-> e]

controlPlaneLabels ==
  {"node-role.kubernetes.io/master",
   "node-role.kubernetes.io/controlplane",
   "node-role.kubernetes.io/control-plane"}

(* strings.HasPrefix(key, "node.kubernetes.io") over the keys of the model *)
HasReservedPrefix(key) ==
  key \in {"node.kubernetes.io", "node.kubernetes.io/unreachable",
           "node.kubernetes.io/not-ready"}

SeqToSet(s) == {s[i] : i \in 1..Len(s)}

(* taints.GetToDiffTaints: the taints to add and to delete, as sets *)
GetToDiffTaints(current, desired) ==
  [toAdd |-> SeqToSet(desired) \ SeqToSet(current),
   toDelete |-> SeqToSet(current) \ SeqToSet(desired)]

IsControlPlaneAnyValue(node) ==
  \E l \in controlPlaneLabels : l \in DOMAIN node.labels

IsControlPlane(node) ==
  \E l \in controlPlaneLabels :
     l \in DOMAIN node.labels /\ node.labels[l] = "true"

PermsOf(S) ==
  {s \in [1..Cardinality(S) -> S] : \A i, j \in 1..Cardinality(S) : i # j => s[i] # s[j]}

(* getControlPlaneTaints over a node list: every list the loop can return.
   The taints a node adds are ranged over in no fixed order. *)
RECURSIVE TaintsFrom(_, _, _)
TaintsFrom(nodeList, i, acc) ==
  IF i > Len(nodeList) THEN {acc}
  ELSE IF ~IsControlPlane(nodeList[i]) THEN TaintsFrom(nodeList, i + 1, acc)
  ELSE LET toAdd == GetToDiffTaints(acc, nodeList[i].taints).toAdd
           keep == {t \in toAdd : ~HasReservedPrefix(t.key)}
       IN UNION {TaintsFrom(nodeList, i + 1, acc \o p) : p \in PermsOf(keep)}

getControlPlaneTaints(nodeList) == TaintsFrom(nodeList, 1, <<>>)

----------------------------------------------------------------------------
(* Conditions of the cluster object: a status string, "" while unset *)

IsTrue(status) == status = "True"

(* condition.Cond.Do: the status while the action runs, and after it *)
CondDoStart(status) == IF status # "False" THEN "Unknown" ELSE status
CondDoEnd(failed) == IF failed THEN "False" ELSE "True"

----------------------------------------------------------------------------
(* The two caches: Go maps keyed by cluster name *)

MapPut(f, k, v) == [x \in (DOMAIN f) \cup {k} |-> IF x = k THEN v ELSE f[x]]
MapDel(f, k) == [x \in (DOMAIN f) \ {k} |-> f[x]]
NoEntries == [x \in {} |-> ""]

getAgentImages(cache, name) ==
  [na |-> IF name \in DOMAIN cache[nodeImage] THEN cache[nodeImage][name] ELSE "",
   ca |-> IF name \in DOMAIN cache[clusterImage] THEN cache[clusterImage][name] ELSE ""]

agentImagesCached(cache, name) ==
  LET im == getAgentImages(cache, name) IN im.na # "" /\ im.ca # ""

controlPlaneTaintsCached(cache, name) == name \in DOMAIN cache

getCachedTaints(cache, name) == IF name \in DOMAIN cache THEN cache[name] ELSE <<>>

clearAgentImagesNodeOnly(cache, name) ==
  [cache EXCEPT ![nodeImage] = MapDel(@, name)]

clearAgentImages(cache, name) ==
  [cache EXCEPT ![nodeImage] = MapDel(@, name), ![clusterImage] = MapDel(@, name)]

clearControlPlaneTaintsAll(cache, name) == [x \in {} |-> <<>>]

clearControlPlaneTaints(cache, name) == MapDel(cache, name)

setAgentImages(cache, name, na, ca) ==
  [cache EXCEPT ![nodeImage] = MapPut(@, name, na), ![clusterImage] = MapPut(@, name, ca)]

setControlPlaneTaints(cache, name, taints) == MapPut(cache, name, taints)

----------------------------------------------------------------------------
(* The decision: redeployAgent *)

(* util.GetPrivateRepo: the first private registry of the spec, or nil *)
GetPrivateRepo(cluster) ==
  IF cluster.rke /\ Len(cluster.privateRegistries) > 0
  THEN cluster.privateRegistries[1] ELSE NoRepo

(* image.ResolveWithCluster: the image under the cluster's private registry *)
ResolveWithCluster(image, cluster) ==
  IF GetPrivateRepo(cluster) # NoRepo
  THEN GetPrivateRepo(cluster) \o "/" \o image ELSE image

repoChange(cluster) ==
  /\ cluster.rke
  /\ cluster.appliedRke
  /\ Len(cluster.appliedPrivateRegistries) > 0
  /\ LET desiredRepo == GetPrivateRepo(cluster)
         appliedRepo == cluster.appliedPrivateRegistries[1]
     IN \/ desiredRepo # NoRepo /\ desiredRepo # appliedRepo
        \/ desiredRepo = NoRepo

forceDeploy(cluster) == cluster.forceAnn = "true"

imageChange(cluster, desiredAgent, desiredAuth) ==
  cluster.agentImage # desiredAgent \/ cluster.authImage # desiredAuth

imageMismatch(cluster, im) ==
  \/ cluster.agentImage # im.na /\ cluster.driver = ClusterDriverRKE
  \/ cluster.agentImage # im.ca

taintMismatchOrdered(currentTaints, desiredTaints) == currentTaints # desiredTaints

taintMismatch(currentTaints, desiredTaints) ==
  LET d == GetToDiffTaints(currentTaints, desiredTaints)
  IN d.toAdd # {} \/ d.toDelete # {}

envVarsMismatch(cluster) == cluster.agentEnvVars # cluster.appliedAgentEnvVars

Decision(res, why, images, taints) ==
  [result |-> res, reason |-> why, agentImages |-> images, controlPlaneTaints |-> taints]

(* the gate of lines 182-184 *)
AgentNotDeployedOnlyFalse(cluster) == cluster.agentDeployed = "False"

AgentNotDeployed(cluster) == ~IsTrue(cluster.agentDeployed)

(* redeployAgent, with the caches it reads and the caches it leaves *)
redeployAgent(cluster, desiredAgent, desiredAuth, desiredFeatures, desiredTaints, images, taints) ==
  IF AgentNotDeployed(cluster) THEN Decision(TRUE, "notDeployed", images, taints)
  ELSE IF \/ forceDeploy(cluster)
          \/ imageChange(cluster, desiredAgent, desiredAuth)
          \/ repoChange(cluster)
          \/ agentFeaturesChanged(desiredFeatures, cluster.agentFeatures)
  THEN Decision(TRUE, "facets", images, taints)
  ELSE IF imageMismatch(cluster, getAgentImages(images, cluster.name))
  THEN Decision(TRUE, "imageCache", clearAgentImages(images, cluster.name), taints)
  ELSE IF taintMismatch(getCachedTaints(taints, cluster.name), desiredTaints)
  THEN Decision(TRUE, "taintCache", images, clearControlPlaneTaints(taints, cluster.name))
  ELSE IF envVarsMismatch(cluster)
  THEN Decision(TRUE, "envVars", images, taints)
  ELSE Decision(FALSE, "none", images, taints)

getDesiredImage(cluster) ==
  IF cluster.agentImageOverride # "" THEN cluster.agentImageOverride
  ELSE cluster.desiredAgentImage

desiredAgentOf(cluster) ==
  IF getDesiredImage(cluster) = "" \/ getDesiredImage(cluster) = "fixed"
  THEN ResolveWithCluster(SettingsAgentImage, cluster)
  ELSE getDesiredImage(cluster)

desiredAuthOf(cluster) ==
  IF ~cluster.authEnabled THEN ""
  ELSE IF cluster.desiredAuthImage = "" \/ cluster.desiredAuthImage = "fixed"
  THEN ResolveWithCluster(SettingsAuthImage, cluster)
  ELSE cluster.desiredAuthImage

----------------------------------------------------------------------------
(* The cluster object (v3.Cluster): the fields the controller reads or writes *)

NewCluster(name, driver) ==
  [name |-> name, deleting |-> FALSE,
   provisioned |-> "", sysAcct |-> "", agentDeployed |-> "",
   driver |-> driver, internal |-> FALSE, strategy |-> "",
   authEnabled |-> FALSE, appliedAuthEnabled |-> FALSE,
   desiredAgentImage |-> "", agentImageOverride |-> "", desiredAuthImage |-> "",
   agentImage |-> "", authImage |-> "", agentFeatures |-> NilMap,
   forceAnn |-> NoAnn, agentEnvVars |-> NilEnv, appliedAgentEnvVars |-> NilEnv,
   rke |-> (driver = ClusterDriverRKE), privateRegistries |-> <<>>,
   appliedRke |-> FALSE, appliedPrivateRegistries |-> <<>>,
   enableNetworkPolicy |-> "nil", plugin |-> "canal", netPolAnn |-> NoAnn]

(* A cluster an earlier run of the controller brought up: provisioned, the
   agent deployed with the images of the settings, its strategy normalised. *)
DeployedCluster(name, driver, auth) ==
  [NewCluster(name, driver) EXCEPT
     !.provisioned = "True", !.sysAcct = "True", !.agentDeployed = "True",
     !.strategy = IF driver # ClusterDriverRKE THEN ""
                  ELSE IF auth THEN "x509|webhook" ELSE "x509",
     !.authEnabled = auth, !.appliedAuthEnabled = auth,
     !.agentImage = SettingsAgentImage,
     !.authImage = IF auth THEN SettingsAuthImage ELSE "",
     !.appliedRke = (driver = ClusterDriverRKE),
     !.enableNetworkPolicy = "true", !.netPolAnn = "true"]

Drivers == {ClusterDriverRKE, ClusterDriverImported}

InitClusters(name) ==
  {NewCluster(name, d) : d \in Drivers}
  \cup {[NewCluster(name, d) EXCEPT !.provisioned = "True", !.appliedRke = @ \/ (d = ClusterDriverRKE)] :
          d \in Drivers}
  \cup {DeployedCluster(name, d, a) : d \in Drivers, a \in BOOLEAN}
  \cup {[DeployedCluster(name, ClusterDriverImported, FALSE) EXCEPT !.internal = TRUE]}
  \cup {[DeployedCluster(name, ClusterDriverImported, FALSE) EXCEPT
           !.agentFeatures = MapOf("embedded-cluster-api", TRUE)]}

(* What a user may change on the stored object *)
UserEdits(c) ==
  {[c EXCEPT !.forceAnn = "true"],
   [c EXCEPT !.desiredAgentImage = OtherAgentImage],
   [c EXCEPT !.desiredAgentImage = "fixed", !.desiredAuthImage = "fixed"],
   [c EXCEPT !.agentEnvVars = "HTTP_PROXY=p"],
   [c EXCEPT !.authEnabled = ~@],
   [c EXCEPT !.privateRegistries = IF c.rke THEN <<"registry.local">> ELSE @]}
  \ {c}

(* What the provisioner records once it has applied the spec *)
Provisioned(c) ==
  [c EXCEPT !.provisioned = "True", !.appliedRke = c.rke,
            !.appliedPrivateRegistries = c.privateRegistries,
            !.appliedAuthEnabled = c.authEnabled]

(* The object as the API server stores it: an empty map is omitted, and reads
   back as nil *)
Persisted(c) ==
  [c EXCEPT !.agentFeatures = IF DOMAIN c.agentFeatures.m = {} THEN NilMap ELSE @]

ControlPlaneNode(taints) ==
  [labels |-> [l \in {"node-role.kubernetes.io/controlplane"} |-> "true"], taints |-> taints]
WorkerNode(taints) ==
  [labels |-> [l \in {"node-role.kubernetes.io/worker"} |-> "true"], taints |-> taints]

TaintEtcd == Taint("node-role.kubernetes.io/etcd", "true", "NoExecute")
TaintCP == Taint("node-role.kubernetes.io/controlplane", "true", "NoSchedule")
TaintUnreachable == Taint("node.kubernetes.io/unreachable", "", "NoExecute")
TaintWorker == Taint("dedicated", "gpu", "NoSchedule")

NodeLists ==
  {<<>>,
   <<ControlPlaneNode(<<TaintEtcd>>), WorkerNode(<<TaintWorker>>)>>,
   <<ControlPlaneNode(<<TaintEtcd, TaintUnreachable>>), ControlPlaneNode(<<TaintCP, TaintEtcd>>)>>}

(* The workloads an earlier deployment left downstream (the node agent was
   once deployed on clusters of every driver) *)
RemoteOf(c) == [na |-> c.agentImage, ca |-> c.agentImage]

----------------------------------------------------------------------------
(* A worker's locals. The caller's object and the working copy are two cells
   of the worker's heap; cref says which cell the variable cluster points to. *)

IdlePass ==
  [name |-> "", given |-> NewCluster("", ClusterDriverImported),
   orig |-> NewCluster("", ClusterDriverImported),
   copy |-> NewCluster("", ClusterDriverImported), cref |-> "copy",
   desiredAgent |-> "", desiredAuth |-> "", desiredFeatures |-> EmptyMap,
   desiredTaints |-> <<>>, i |-> 0, err |-> "", updateErr |-> "",
   decision |-> "none", reason |-> "none",
   applyCalls |-> 0, applyOk |-> FALSE, okAt |-> 0, applyEscalated |-> FALSE, doOk |-> FALSE,
   deleteAuthCalls |-> 0, deleteNodeCalls |-> 0, cleanupReached |-> FALSE,
   refreshCalls |-> 0, committed |-> FALSE, updateCalls |-> 0,
   sysAcctCalls |-> 0, enqueued |-> FALSE, settledAtStart |-> FALSE,
   doCalls |-> 0, authOut |-> "", nodeOut |-> "",
   cacheImagesCalls |-> 0, cacheTaintsCalls |-> 0,
   imagesEntryAtCheck |-> FALSE, taintsEntryAtCheck |-> FALSE,
   imagesBefore |-> [nodeImage |-> NoEntries, clusterImage |-> NoEntries],
   taintsBefore |-> NoEntries,
   imagesAtDecision |-> [nodeImage |-> NoEntries, clusterImage |-> NoEntries],
   na |-> "", ca |-> "", taints |-> <<>>, ret |-> ""]

Cluster(p) == IF p.cref = "copy" THEN p.copy ELSE p.orig
WithCluster(p, c) == IF p.cref = "copy" THEN [p EXCEPT !.copy = c] ELSE [p EXCEPT !.orig = c]

DeepCopyAliased(p) == [p EXCEPT !.cref = "orig", !.copy = p.orig]

DeepCopy(p) == [p EXCEPT !.cref = "copy", !.copy = p.orig]

(* sync, lines 94-101: the strategy the auth endpoint implies, for RKE clusters *)
NormaliseStrategy(c) ==
  IF c.driver = ClusterDriverRKE
  THEN [c EXCEPT !.strategy = IF c.authEnabled THEN "x509|webhook" ELSE "x509"]
  ELSE c

NoHist == [pending |-> FALSE, pendingTaints |-> {}, settled |-> FALSE]

Workers == {"w1"}
Names == {"c1"}

Init ==
  /\ store \in [Names -> UNION {InitClusters(n) : n \in Names}]
  /\ \A n \in Names : store[n].name = n
  /\ nodes \in [Names -> NodeLists]
  /\ remote = [n \in Names |-> RemoteOf(store[n])]
  /\ agentImages = [x \in {nodeImage, clusterImage} |-> NoEntries]
  /\ controlPlaneTaints = NoEntries
  /\ serverURL \in {"", "https://rancher.local"}
  /\ pc = [w \in Workers |-> "idle"]
  /\ pass = [w \in Workers |-> IdlePass]
  /\ hist = [n \in Names |-> NoHist]
  /\ budget = [passes |-> MaxPasses, env |-> MaxEnv]

----------------------------------------------------------------------------
(* sync and doSync *)

Goto(w, label, p) ==
  /\ pc' = [pc EXCEPT ![w] = label]
  /\ pass' = [pass EXCEPT ![w] = p]

Fail(w, p, e) == Goto(w, "writeback", [p EXCEPT !.err = e])

(* sync, lines 77-101; the framework runs one pass per cluster key at a time *)
Sync(w, n) ==
  /\ pc[w] = "idle"
  /\ budget.passes > 0
  /\ \A v \in Workers \ {w} : pc[v] = "idle" \/ pass[v].name # n
  /\ budget' = [budget EXCEPT !.passes = @ - 1]
  /\ LET p0 == [IdlePass EXCEPT !.name = n, !.given = store[n], !.orig = store[n],
                                !.settledAtStart = hist[n].settled]
     IN IF store[n].deleting
        THEN \E e \in {"", "removeSystemAccount"} :
                Goto(w, "done", [p0 EXCEPT !.err = e])
        ELSE LET p1 == DeepCopy(p0)
             IN Goto(w, "doSync", WithCluster(p1, NormaliseStrategy(Cluster(p1))))
  /\ UNCHANGED <<store, nodes, remote, agentImages, controlPlaneTaints, serverURL, hist>>

(* the gate of line 118 *)
NotYetProvisionedOnlyFalse(c) == c.provisioned = "False"

NotYetProvisioned(c) == ~IsTrue(c.provisioned)

(* doSync, lines 118-131 *)
DoSync(w) ==
  /\ pc[w] = "doSync"
  /\ LET p == pass[w]
     IN IF NotYetProvisioned(Cluster(p))
        THEN Goto(w, "writeback", p)
        ELSE \/ Fail(w, p, "listNodes")
             \/ /\ Len(nodes[p.name]) = 0
                /\ Goto(w, "writeback", p)
             \/ /\ Len(nodes[p.name]) # 0
                /\ Goto(w, "sysAcct", p)
  /\ UNCHANGED <<store, nodes, remote, agentImages, controlPlaneTaints, serverURL, hist, budget>>

(* line 133: the wrapper chosen for SystemAccountCreated is DoUntilTrue, which
   runs the action only while the condition is not true *)
SystemAccountWrapperAlways(c) == TRUE

SystemAccountPending(c) == ~IsTrue(c.sysAcct)

(* doSync, lines 133-139: SystemAccountCreated.DoUntilTrue *)
SysAcct(w) ==
  /\ pc[w] = "sysAcct"
  /\ LET p == pass[w]
         c == Cluster(p)
     IN IF ~SystemAccountPending(c)
        THEN Goto(w, "cacheImages", p)
        ELSE \E ok \in BOOLEAN :
               LET q == [WithCluster(p, [c EXCEPT !.sysAcct = CondDoEnd(~ok)])
                           EXCEPT !.sysAcctCalls = @ + 1]
               IN IF ok THEN Goto(w, "cacheImages", q)
                        ELSE Fail(w, q, "createSystemAccount")
  /\ UNCHANGED <<store, nodes, remote, agentImages, controlPlaneTaints, serverURL, hist, budget>>

(* cacheAgentImages, lines 467-483: both images read from the downstream
   cluster, then stored under the lock; ok = FALSE is a failed read *)
cacheAgentImages(name, ok) ==
  IF ok THEN agentImages' = setAgentImages(agentImages, name, remote[name].na, remote[name].ca)
        ELSE UNCHANGED agentImages

(* Whether both image maps hold an entry for the cluster, whatever its value *)
HasImageEntries(cache, name) ==
  name \in DOMAIN cache[nodeImage] /\ name \in DOMAIN cache[clusterImage]

(* doSync, lines 141-145 *)
CacheImages(w) ==
  /\ pc[w] = "cacheImages"
  /\ LET p == [pass[w] EXCEPT !.imagesEntryAtCheck = HasImageEntries(agentImages, pass[w].name)]
         c == Cluster(p)
     IN IF c.agentImage # "" /\ ~agentImagesCached(agentImages, p.name)
        THEN \E ok \in BOOLEAN :
               LET q == [p EXCEPT !.cacheImagesCalls = @ + 1]
               IN /\ cacheAgentImages(p.name, ok)
                  /\ IF ok THEN Goto(w, "cacheTaints", q) ELSE Fail(w, q, "cacheAgentImages")
        ELSE /\ Goto(w, "cacheTaints", p)
             /\ UNCHANGED agentImages
  /\ UNCHANGED <<store, nodes, remote, controlPlaneTaints, serverURL, hist, budget>>

(* doSync, lines 147-151, and cacheControlPlaneTaints, lines 529-539 *)
CacheTaints(w) ==
  /\ pc[w] = "cacheTaints"
  /\ LET p == [pass[w] EXCEPT !.taintsEntryAtCheck = pass[w].name \in DOMAIN controlPlaneTaints]
         q == [p EXCEPT !.cacheTaintsCalls = @ + 1]
     IN IF ~controlPlaneTaintsCached(controlPlaneTaints, p.name)
        THEN \/ \E ts \in getControlPlaneTaints(nodes[p.name]) :
                  /\ controlPlaneTaints' = setControlPlaneTaints(controlPlaneTaints, p.name, ts)
                  /\ Goto(w, "deployAgent", q)
             \/ /\ Fail(w, q, "cacheControlPlaneTaints")
                /\ UNCHANGED controlPlaneTaints
        ELSE /\ Goto(w, "deployAgent", p)
             /\ UNCHANGED controlPlaneTaints
  /\ UNCHANGED <<store, nodes, remote, agentImages, serverURL, hist, budget>>

----------------------------------------------------------------------------
(* deployAgent *)

(* deployAgent, lines 255-284: the desired state *)
DeployAgent(w) ==
  /\ pc[w] = "deployAgent"
  /\ LET p == pass[w]
         c == Cluster(p)
     IN IF c.internal
        THEN Goto(w, "netpol", p)
        ELSE \/ \E ts \in getControlPlaneTaints(nodes[p.name]) :
                  Goto(w, "redeploy",
                       [p EXCEPT !.desiredAgent = desiredAgentOf(c),
                                 !.desiredAuth = desiredAuthOf(c),
                                 !.desiredFeatures = EmptyMap,
                                 !.desiredTaints = ts])
             \/ Fail(w, p, "getControlPlaneTaints")
  /\ UNCHANGED <<store, nodes, remote, agentImages, controlPlaneTaints, serverURL, hist, budget>>

(* deployAgent, lines 286-288: the decision, and the caches it clears *)
Redeploy(w) ==
  /\ pc[w] = "redeploy"
  /\ LET p == pass[w]
         d == redeployAgent(Cluster(p), p.desiredAgent, p.desiredAuth, p.desiredFeatures,
                            p.desiredTaints, agentImages, controlPlaneTaints)
         q == [p EXCEPT !.decision = IF d.result THEN "true" ELSE "false",
                        !.reason = d.reason,
                        !.imagesBefore = agentImages,
                        !.taintsBefore = controlPlaneTaints,
                        !.imagesAtDecision = d.agentImages]
     IN /\ agentImages' = d.agentImages
        /\ controlPlaneTaints' = d.controlPlaneTaints
        /\ hist' = IF d.reason = "taintCache"
                   THEN [hist EXCEPT ![p.name].pending = TRUE,
                                     ![p.name].pendingTaints = SeqToSet(p.desiredTaints)]
                   ELSE hist
        /\ IF d.result THEN Goto(w, "kubeConfig", q) ELSE Goto(w, "netpol", q)
  /\ UNCHANGED <<store, nodes, remote, serverURL, budget>>

(* deployAgent, lines 290-293, and getKubeConfig, lines 382-395 *)
KubeConfig(w) ==
  /\ pc[w] = "kubeConfig"
  /\ \/ Goto(w, "getYAML", pass[w])
     \/ Fail(w, pass[w], "getKubeConfig")
  /\ UNCHANGED <<store, nodes, remote, agentImages, controlPlaneTaints, serverURL, hist, budget>>

(* How AgentDeployed.Do leaves the cluster when its action returns an error *)
DoFailed(c) == [c EXCEPT !.agentDeployed = CondDoEnd(TRUE)]

(* line 295: the wrapper chosen for AgentDeployed is Do, which runs the action
   whatever the status of the condition *)
AgentDeployedWrapperUntilTrue(c) == ~IsTrue(c.agentDeployed)

AgentDeployedWrapperRuns(c) == TRUE

(* deployAgent, lines 295-299, and getYAML, lines 397-419: AgentDeployed.Do starts *)
GetYAML(w) ==
  /\ pc[w] = "getYAML"
  /\ LET p == [pass[w] EXCEPT !.doCalls = @ + 1]
         c == [Cluster(p) EXCEPT !.agentDeployed = CondDoStart(@)]
     IN IF ~AgentDeployedWrapperRuns(Cluster(pass[w]))
        THEN Goto(w, "refresh", pass[w])
        ELSE \/ Fail(w, WithCluster(p, DoFailed(c)), "getOrCreateSystemClusterToken")
             \/ /\ serverURL = ""
                /\ Fail(w, [WithCluster(p, DoFailed(c)) EXCEPT !.enqueued = TRUE], "serverURL")
             \/ /\ serverURL # ""
                /\ Fail(w, WithCluster(p, DoFailed(c)), "systemTemplate")
             \/ /\ serverURL # ""
                /\ Goto(w, "apply", [WithCluster(p, c) EXCEPT !.i = 0])
  /\ UNCHANGED <<store, nodes, remote, agentImages, controlPlaneTaints, serverURL, hist, budget>>

(* the loop condition of line 302 *)
ApplyLoopContinuesOneMore(i) == i <= ApplyAttempts

ApplyLoopContinues(i) == i < ApplyAttempts

(* What a successful kubectl apply of the manifest leaves downstream: the
   cluster agent at the desired image, the node agent too on RKE clusters *)
ApplyManifest(r, c, desiredAgent) ==
  [r EXCEPT !.ca = desiredAgent,
            !.na = IF c.driver = ClusterDriverRKE THEN desiredAgent ELSE @]

(* line 314: whether err is set once the loop is left, after attempt i + 1 *)
ErrAfterLoopShadowed(attemptFailed, i) == FALSE

ErrAfterLoopAtBudget(attemptFailed, i) == attemptFailed \/ i + 1 >= ApplyAttempts

ErrAfterLoop(attemptFailed, i) == attemptFailed

(* lines 314-317: the loop is left; the error is returned, or the cleanup starts *)
AfterLoop(w, p, attemptFailed) ==
  IF ErrAfterLoop(attemptFailed, p.i)
  THEN Fail(w, [WithCluster(p, DoFailed(Cluster(p))) EXCEPT !.applyEscalated = TRUE], "apply")
  ELSE Goto(w, "deleteAuth", p)

(* deployAgent, lines 301-316: one iteration of the apply loop *)
Apply(w) ==
  /\ pc[w] = "apply"
  /\ ApplyLoopContinues(pass[w].i)
  /\ LET p == pass[w]
         c == Cluster(p)
         q == [p EXCEPT !.applyCalls = @ + 1]
     IN \/ /\ remote' = [remote EXCEPT ![p.name] = ApplyManifest(@, c, p.desiredAgent)]
           /\ hist' = IF hist[p.name].pending /\ hist[p.name].pendingTaints = SeqToSet(p.desiredTaints)
                      THEN [hist EXCEPT ![p.name].pending = FALSE, ![p.name].pendingTaints = {}]
                      ELSE hist
           /\ AfterLoop(w, [q EXCEPT !.applyOk = TRUE, !.okAt = q.applyCalls], FALSE)
        \/ /\ UNCHANGED <<remote, hist>>
           /\ IF ApplyLoopContinues(p.i + 1)
              THEN Goto(w, "apply", [q EXCEPT !.i = @ + 1])
              ELSE AfterLoop(w, q, TRUE)
  /\ UNCHANGED <<store, nodes, agentImages, controlPlaneTaints, serverURL, budget>>

(* the condition of line 318 *)
AuthCleanupAlways(c) == TRUE

AuthCleanupNeeded(c) == ~c.authEnabled /\ c.appliedAuthEnabled /\ c.authImage # ""

(* deployAgent, lines 317-329: the kube-api-auth DaemonSet *)
DeleteAuth(w) ==
  /\ pc[w] = "deleteAuth"
  /\ LET p == [pass[w] EXCEPT !.cleanupReached = TRUE]
         c == Cluster(p)
     IN IF AuthCleanupNeeded(c)
        THEN \E out \in {"deleted", "notFound", "error"} :
               LET q == [p EXCEPT !.deleteAuthCalls = @ + 1, !.authOut = out]
               IN IF out = "error"
                  THEN Fail(w, WithCluster(q, DoFailed(c)), "deleteAuth")
                  ELSE Goto(w, "deleteNode", q)
        ELSE Goto(w, "deleteNode", p)
  /\ UNCHANGED <<store, nodes, remote, agentImages, controlPlaneTaints, serverURL, hist, budget>>

(* the condition of line 330 *)
NodeCleanupNeeded(c) == c.driver # ClusterDriverRKE

(* deployAgent, lines 330-345: the cattle-node-agent DaemonSet; then Do ends *)
DeleteNode(w) ==
  /\ pc[w] = "deleteNode"
  /\ LET p == pass[w]
         c == Cluster(p)
         done == [c EXCEPT !.agentDeployed = CondDoEnd(FALSE)]
     IN IF NodeCleanupNeeded(c)
        THEN LET q == [p EXCEPT !.deleteNodeCalls = @ + 1]
             IN \/ /\ remote[p.name].na # ""
                   /\ remote' = [remote EXCEPT ![p.name].na = ""]
                   /\ Goto(w, "refresh", [WithCluster(q, done) EXCEPT !.doOk = TRUE, !.nodeOut = "deleted"])
                \/ /\ remote[p.name].na = ""
                   /\ UNCHANGED remote
                   /\ Goto(w, "refresh", [WithCluster(q, done) EXCEPT !.doOk = TRUE, !.nodeOut = "notFound"])
                \/ /\ UNCHANGED remote
                   /\ Fail(w, [WithCluster(q, DoFailed(c)) EXCEPT !.nodeOut = "error"], "deleteNode")
        ELSE /\ UNCHANGED remote
             /\ Goto(w, "refresh", [WithCluster(p, done) EXCEPT !.doOk = TRUE])
  /\ UNCHANGED <<store, nodes, agentImages, controlPlaneTaints, serverURL, hist, budget>>

(* deployAgent, lines 347-349 *)
Refresh(w) ==
  /\ pc[w] = "refresh"
  /\ LET p == [pass[w] EXCEPT !.refreshCalls = @ + 1]
     IN \E ok \in BOOLEAN :
          /\ cacheAgentImages(p.name, ok)
          /\ IF ok THEN Goto(w, "commit", p) ELSE Fail(w, p, "cacheAgentImages")
  /\ UNCHANGED <<store, nodes, remote, controlPlaneTaints, serverURL, hist, budget>>

(* deployAgent, lines 351-363 *)
CommitState(c, desiredAgent, desiredAuth, desiredFeatures) ==
  [c EXCEPT !.agentImage = desiredAgent,
            !.agentFeatures = desiredFeatures,
            !.desiredAgentImage = IF @ = "fixed" THEN desiredAgent ELSE @,
            !.authImage = desiredAuth,
            !.desiredAuthImage = IF @ = "fixed" THEN desiredAuth ELSE @,
            !.forceAnn = IF @ = "true" THEN "false" ELSE @,
            !.appliedAgentEnvVars = c.agentEnvVars]

Commit(w) ==
  /\ pc[w] = "commit"
  /\ LET p == pass[w]
     IN Goto(w, "netpol",
             [WithCluster(p, CommitState(Cluster(p), p.desiredAgent, p.desiredAuth, p.desiredFeatures))
                EXCEPT !.committed = TRUE])
  /\ UNCHANGED <<store, nodes, remote, agentImages, controlPlaneTaints, serverURL, hist, budget>>

(* setNetworkPolicyAnn, lines 368-380 *)
setNetworkPolicyAnn(c) ==
  IF c.enableNetworkPolicy # "nil" THEN c
  ELSE IF c.rke /\ c.plugin = "canal"
  THEN [c EXCEPT !.enableNetworkPolicy = "true", !.netPolAnn = "true"]
  ELSE c

NetPol(w) ==
  /\ pc[w] = "netpol"
  /\ Goto(w, "writeback", WithCluster(pass[w], setNetworkPolicyAnn(Cluster(pass[w]))))
  /\ UNCHANGED <<store, nodes, remote, agentImages, controlPlaneTaints, serverURL, hist, budget>>

----------------------------------------------------------------------------
(* sync, lines 104-113: the write-back and the return *)

(* reflect.DeepEqual(cluster, original) *)
DeepEqual(p) == Cluster(p) = p.orig

(* Whether the cluster is settled after the pass that ends here: a pass that
   redeployed settles it when the apply, the cleanup, the commit and the
   write-back all succeeded and the downstream workloads run the applied image *)
Settles(p, h, r, updated) ==
  IF p.decision = "true"
  THEN /\ p.applyOk /\ p.doOk /\ p.committed /\ p.err = "" /\ updated
       /\ r.ca = p.desiredAgent
       /\ Cluster(p).driver = ClusterDriverRKE => r.na = p.desiredAgent
  ELSE h.settled

Writeback(w) ==
  /\ pc[w] = "writeback"
  /\ LET p == pass[w]
         n == p.name
     IN IF ~DeepEqual(p)
        THEN \/ /\ store[n] = p.given
                /\ store' = [store EXCEPT ![n] = Persisted(Cluster(p))]
                /\ hist' = [hist EXCEPT ![n].settled = Settles(p, hist[n], remote[n], TRUE)]
                /\ Goto(w, "done", [p EXCEPT !.updateCalls = @ + 1])
             \/ /\ UNCHANGED store
                /\ hist' = [hist EXCEPT ![n].settled = Settles(p, hist[n], remote[n], FALSE)]
                /\ Goto(w, "done", [p EXCEPT !.updateCalls = @ + 1, !.updateErr = "update"])
        ELSE /\ UNCHANGED store
             /\ hist' = [hist EXCEPT ![n].settled = Settles(p, hist[n], remote[n], TRUE)]
             /\ Goto(w, "done", p)
  /\ UNCHANGED <<nodes, remote, agentImages, controlPlaneTaints, serverURL, budget>>

(* what sync returns: the deployment error first, else the update error *)
Returned(p) == IF p.err # "" THEN p.err ELSE p.updateErr

Return(w) ==
  /\ pc[w] = "done"
  /\ Goto(w, "idle", IdlePass)
  /\ UNCHANGED <<store, nodes, remote, agentImages, controlPlaneTaints, serverURL, hist, budget>>

----------------------------------------------------------------------------
(* What happens around the controller *)

(* Outside changes to a cluster are taken between its passes *)
Quiet(n) == \A w \in Workers : pc[w] = "idle" \/ pass[w].name # n

Spend == budget.env > 0 /\ budget' = [budget EXCEPT !.env = @ - 1]

Disturb(n) == [hist EXCEPT ![n].settled = FALSE]

EnvProvision(n) ==
  /\ Spend
  /\ Quiet(n)
  /\ ~store[n].deleting
  /\ Provisioned(store[n]) # store[n]
  /\ store' = [store EXCEPT ![n] = Provisioned(@)]
  /\ UNCHANGED <<nodes, remote, agentImages, controlPlaneTaints, serverURL, pc, pass, hist>>

EnvEdit(n) ==
  /\ Spend
  /\ Quiet(n)
  /\ ~store[n].deleting
  /\ \E c \in UserEdits(store[n]) : store' = [store EXCEPT ![n] = c]
  /\ hist' = Disturb(n)
  /\ UNCHANGED <<nodes, remote, agentImages, controlPlaneTaints, serverURL, pc, pass>>

EnvDelete(n) ==
  /\ Spend
  /\ Quiet(n)
  /\ ~store[n].deleting
  /\ store' = [store EXCEPT ![n].deleting = TRUE]
  /\ hist' = Disturb(n)
  /\ UNCHANGED <<nodes, remote, agentImages, controlPlaneTaints, serverURL, pc, pass>>

EnvNodes(n) ==
  /\ Spend
  /\ Quiet(n)
  /\ \E nl \in NodeLists \ {nodes[n]} : nodes' = [nodes EXCEPT ![n] = nl]
  /\ hist' = [Disturb(n) EXCEPT ![n].pending = FALSE, ![n].pendingTaints = {}]
  /\ UNCHANGED <<store, remote, agentImages, controlPlaneTaints, serverURL, pc, pass>>

EnvRemote(n) ==
  /\ Spend
  /\ Quiet(n)
  /\ \E img \in {"", OtherAgentImage} \ {remote[n].ca} :
        remote' = [remote EXCEPT ![n].ca = img]
  /\ hist' = Disturb(n)
  /\ UNCHANGED <<store, nodes, agentImages, controlPlaneTaints, serverURL, pc, pass>>

EnvServerURL ==
  /\ Spend
  /\ \A w \in Workers : pc[w] = "idle"
  /\ serverURL = ""
  /\ serverURL' = "https://rancher.local"
  /\ UNCHANGED <<store, nodes, remote, agentImages, controlPlaneTaints, pc, pass, hist>>

----------------------------------------------------------------------------

Next ==
  \/ \E w \in Workers, n \in Names : Sync(w, n)
  \/ \E w \in Workers : DoSync(w)
  \/ \E w \in Workers : SysAcct(w)
  \/ \E w \in Workers : CacheImages(w)
  \/ \E w \in Workers : CacheTaints(w)
  \/ \E w \in Workers : DeployAgent(w)
  \/ \E w \in Workers : Redeploy(w)
  \/ \E w \in Workers : KubeConfig(w)
  \/ \E w \in Workers : GetYAML(w)
  \/ \E w \in Workers : Apply(w)
  \/ \E w \in Workers : DeleteAuth(w)
  \/ \E w \in Workers : DeleteNode(w)
  \/ \E w \in Workers : Refresh(w)
  \/ \E w \in Workers : Commit(w)
  \/ \E w \in Workers : NetPol(w)
  \/ \E w \in Workers : Writeback(w)
  \/ \E w \in Workers : Return(w)
  \/ \E n \in Names : EnvProvision(n)
  \/ \E n \in Names : EnvEdit(n)
  \/ \E n \in Names : EnvDelete(n)
  \/ \E n \in Names : EnvNodes(n)
  \/ \E n \in Names : EnvRemote(n)
  \/ EnvServerURL

Spec == Init /\ [][Next]_vars

----------------------------------------------------------------------------
(* The decision on its own: redeployAgent called on every cluster, desired
   values and cache contents of the sets below *)

FeatureKeys == {"x", "y"}

FeatureMaps ==
  {NilMap} \cup {[isNil |-> FALSE, m |-> f] : f \in UNION {[K -> BOOLEAN] : K \in SUBSET FeatureKeys}}

TaintLists == UNION {PermsOf(S) : S \in SUBSET {TaintEtcd, TaintCP, TaintWorker}}

RegistryLists == {<<>>, <<"registry.local">>, <<"mirror.local">>}

ImageCaches(name, c) ==
  {[nodeImage |-> NoEntries, clusterImage |-> NoEntries]}
  \cup {setAgentImages([nodeImage |-> NoEntries, clusterImage |-> NoEntries], name, na, ca) :
           na \in {c.agentImage, ""}, ca \in {c.agentImage, OtherAgentImage}}

DecideCase(c, dAgent, dAuth, dFeatures, dTaints, images, taints) ==
  [cluster |-> c, desiredAgent |-> dAgent, desiredAuth |-> dAuth, desiredFeatures |-> dFeatures,
   desiredTaints |-> dTaints, agentImages |-> images, controlPlaneTaints |-> taints]

(* the case in which nothing differs, for a deployed cluster c *)
QuietCase(c) ==
  DecideCase(c, c.agentImage, c.authImage, EmptyMap, <<TaintEtcd>>,
             setAgentImages([nodeImage |-> NoEntries, clusterImage |-> NoEntries],
                            c.name, c.agentImage, c.agentImage),
             setControlPlaneTaints(NoEntries, c.name, <<TaintEtcd>>))

FacetCases(name) ==
  {DecideCase([DeployedCluster(name, d, FALSE) EXCEPT
                 !.agentDeployed = ad, !.forceAnn = f, !.agentImage = ai,
                 !.agentEnvVars = ev, !.agentFeatures = af],
              SettingsAgentImage, dAuth, EmptyMap, dT, im, ta) :
     d \in Drivers, ad \in {"True", "False", "Unknown", ""}, f \in {NoAnn, "true"},
     ai \in {SettingsAgentImage, OtherAgentImage}, ev \in {NilEnv, "HTTP_PROXY=p"},
     af \in {NilMap, MapOf("x", TRUE)}, dAuth \in {"", SettingsAuthImage},
     dT \in {<<TaintEtcd>>, <<TaintCP, TaintEtcd>>},
     im \in {[nodeImage |-> NoEntries, clusterImage |-> NoEntries],
              setAgentImages([nodeImage |-> NoEntries, clusterImage |-> NoEntries],
                             name, SettingsAgentImage, SettingsAgentImage)},
     ta \in {NoEntries, setControlPlaneTaints(NoEntries, name, <<TaintEtcd>>),
              setControlPlaneTaints(NoEntries, name, <<TaintEtcd, TaintCP>>)}}

FeatureCases(name) ==
  {[QuietCase([DeployedCluster(name, ClusterDriverImported, FALSE) EXCEPT
                 !.agentDeployed = ad, !.agentFeatures = af])
      EXCEPT !.desiredFeatures = df] :
     ad \in {"True", ""}, af \in FeatureMaps, df \in FeatureMaps}

TaintCases(name) ==
  {[QuietCase([DeployedCluster(name, d, FALSE) EXCEPT !.agentDeployed = ad])
      EXCEPT !.desiredTaints = dT, !.controlPlaneTaints = ta] :
     d \in Drivers, ad \in {"True", "False"}, dT \in TaintLists,
     ta \in {NoEntries} \cup {setControlPlaneTaints(NoEntries, name, cT) : cT \in TaintLists}}

RepoCases(name) ==
  {[QuietCase([DeployedCluster(name, ClusterDriverRKE, FALSE) EXCEPT
                 !.agentDeployed = ad, !.rke = r, !.appliedRke = ar,
                 !.privateRegistries = pr, !.appliedPrivateRegistries = apr])
      EXCEPT !.agentImages = im] :
     ad \in {"True", "Unknown"}, r \in BOOLEAN, ar \in BOOLEAN,
     pr \in RegistryLists, apr \in RegistryLists,
     im \in ImageCaches(name, DeployedCluster(name, ClusterDriverRKE, FALSE))}

DecideCases(name) ==
  FacetCases(name) \cup FeatureCases(name) \cup TaintCases(name) \cup RepoCases(name)

(* Another cluster of the process, whose entries share the two caches *)
OtherName == "c2"

WithOtherEntries(images, taints) ==
  [agentImages |-> setAgentImages(images, OtherName, OtherAgentImage, OtherAgentImage),
   controlPlaneTaints |-> setControlPlaneTaints(taints, OtherName, <<TaintWorker>>)]

(* a worker about to evaluate line 286 on the case *)
InitDecide ==
  \E k \in UNION {DecideCases(n) : n \in Names} :
    LET n == k.cluster.name
    IN /\ store = [x \in Names |-> k.cluster]
       /\ nodes = [x \in Names |-> <<>>]
       /\ remote = [x \in Names |-> RemoteOf(k.cluster)]
       /\ agentImages = WithOtherEntries(k.agentImages, k.controlPlaneTaints).agentImages
       /\ controlPlaneTaints = WithOtherEntries(k.agentImages, k.controlPlaneTaints).controlPlaneTaints
       /\ serverURL = "https://rancher.local"
       /\ pc = [w \in Workers |-> "redeploy"]
       /\ pass = [w \in Workers |->
                   [IdlePass EXCEPT !.name = n, !.given = k.cluster, !.orig = k.cluster,
                                    !.copy = k.cluster, !.desiredAgent = k.desiredAgent,
                                    !.desiredAuth = k.desiredAuth,
                                    !.desiredFeatures = k.desiredFeatures,
                                    !.desiredTaints = k.desiredTaints]]
       /\ hist = [x \in Names |-> NoHist]
       /\ budget = [passes |-> 0, env |-> 0]

NextDecide == \E w \in Workers : Redeploy(w)

SpecDecide == InitDecide /\ [][NextDecide]_vars

----------------------------------------------------------------------------
(* Properties *)

Live(p) == p.name # "" /\ ~p.given.deleting

(* The fields the state commit of deployAgent writes *)
CommitFields(c) ==
  <<c.agentImage, c.authImage, c.agentFeatures, c.appliedAgentEnvVars, c.forceAnn,
    c.desiredAgentImage, c.desiredAuthImage>>

(* C1, as stated: a pass on a cluster whose Provisioned condition is not true
   returns success, makes no apply attempt, leaves the working copy equal to
   the original and calls no Update. *)
C1_NoOpAsStated ==
  \A w \in Workers :
    (pc[w] = "done" /\ Live(pass[w]) /\ pass[w].given.provisioned # "True")
      => /\ Returned(pass[w]) = ""
         /\ pass[w].applyCalls = 0
         /\ Cluster(pass[w]) = pass[w].orig
         /\ pass[w].updateCalls = 0

(* C1, amended: on a live cluster whose Provisioned condition is not true,
   doSync returns nil with no system-account, cache, decision or apply step
   taken and without changing the working copy; the copy differs from the
   original at most in the authentication strategy sync sets for an RKE
   cluster before doSync, Update is called exactly when that strategy differs
   from the stored one, and the pass returns success unless that Update fails. *)
C1_NotProvisionedNoOp ==
  \A w \in Workers :
    (pc[w] = "done" /\ Live(pass[w]) /\ pass[w].given.provisioned # "True")
      => LET p == pass[w]
             c == Cluster(p)
         IN /\ p.err = ""
            /\ p.applyCalls = 0 /\ p.sysAcctCalls = 0 /\ p.decision = "none"
            /\ [c EXCEPT !.strategy = p.given.strategy] = p.given
            /\ c.strategy # p.given.strategy => c.driver = ClusterDriverRKE
            /\ p.updateCalls = IF c.strategy # p.given.strategy THEN 1 ELSE 0
            /\ Returned(p) # "" => p.updateCalls = 1 /\ p.updateErr # ""

C1_Witness ==
  \E w \in Workers :
    /\ pc[w] = "done" /\ Live(pass[w]) /\ pass[w].given.provisioned # "True"
    /\ pass[w].updateCalls = 1 /\ pass[w].updateErr = ""

(* C2, as stated: once redeployAgent returned true for a taint difference,
   and while the nodes are unchanged and no apply carrying the desired taints
   has succeeded, no pass decides that the agent is up to date. *)
C2_NoFalseUpToDate ==
  \A w \in Workers :
    (pc[w] # "idle" /\ pass[w].decision = "false") => ~hist[pass[w].name].pending

(* C3, as stated: after a pass whose apply, cleanup, commit and write-back
   succeeded, with spec, annotations and nodes unchanged and the downstream
   workloads at the applied image, the next decision is false and no apply
   is attempted. *)
C3_NoSpuriousRedeploy ==
  \A w \in Workers :
    (pc[w] # "idle" /\ pass[w].settledAtStart /\ pass[w].decision # "none")
      => pass[w].decision = "false" /\ pass[w].applyCalls = 0

(* C4: sync never mutates the caller's object, and calls Update once when the
   working copy differs from the original after doSync and not at all when
   they are equal, whether doSync returned an error or not. *)
C4_PrivateCopy ==
  \A w \in Workers :
    /\ pc[w] # "idle" => pass[w].orig = pass[w].given
    /\ (pc[w] # "idle" /\ pc[w] # "done") => pass[w].updateCalls = 0
    /\ (pc[w] = "done" /\ Live(pass[w]))
         => pass[w].updateCalls = IF Cluster(pass[w]) # pass[w].given THEN 1 ELSE 0

C4_Witness ==
  \E w \in Workers :
    /\ pc[w] = "done" /\ pass[w].err # "" /\ pass[w].updateCalls = 1
    /\ pass[w].updateErr = "" /\ store[pass[w].name] # pass[w].given

(* C5, as stated: whenever the apply and the cleanup of a pass succeeded, the
   pass ends with the recorded images, the recorded features and the applied
   env vars at their desired values and a "true" force-deploy annotation
   cleared. *)
C5_CommitAfterApply ==
  \A w \in Workers :
    (pc[w] = "done" /\ pass[w].doOk)
      => LET p == pass[w]
             c == Cluster(p)
         IN /\ c.agentImage = p.desiredAgent
            /\ c.authImage = p.desiredAuth
            /\ c.agentFeatures = p.desiredFeatures
            /\ c.appliedAgentEnvVars = c.agentEnvVars
            /\ p.given.forceAnn = "true" => c.forceAnn # "true"

(* C6: when redeployAgent returns true for an image-cache mismatch the image
   cache has no entry for the cluster, and when it returns true for a taint
   mismatch the taint cache has none; a read then reports the entry absent. *)
C6_CacheInvalidated ==
  \A w \in Workers :
    pc[w] = "kubeConfig"
      => LET n == pass[w].name
         IN /\ pass[w].reason = "imageCache"
                 => /\ n \notin DOMAIN agentImages[nodeImage]
                    /\ n \notin DOMAIN agentImages[clusterImage]
                    /\ ~agentImagesCached(agentImages, n)
            /\ pass[w].reason = "taintCache"
                 => /\ n \notin DOMAIN controlPlaneTaints
                    /\ ~controlPlaneTaintsCached(controlPlaneTaints, n)

C6_Witness ==
  \E w \in Workers :
    /\ pc[w] = "kubeConfig" /\ pass[w].reason = "imageCache"
    /\ pass[w].given.agentImage # ""

(* C7: a pass applies the manifest at most 5 times, makes no attempt after a
   successful one, and escalates an apply error only after 5 failed attempts. *)
C7_ApplyRetryBound ==
  \A w \in Workers :
    LET p == pass[w]
    IN /\ p.applyCalls <= 5
       /\ p.applyOk => p.applyCalls = p.okAt /\ pc[w] # "apply" /\ ~p.applyEscalated
       /\ p.applyEscalated => p.applyCalls = 5 /\ ~p.applyOk
       /\ p.err = "apply" <=> p.applyEscalated

C7_Witness ==
  \E w \in Workers : pc[w] = "done" /\ pass[w].applyOk /\ pass[w].okAt = 3

(* C8: when all 5 apply attempts failed, deployAgent returns the apply error,
   AgentDeployed is not true, no companion resource was deleted, the commit
   was skipped (recorded images, features, applied env vars, annotation as
   before) and deployAgent did not refresh the image cache. *)
C8_ApplyExhausted ==
  \A w \in Workers :
    (pass[w].applyCalls = 5 /\ ~pass[w].applyOk)
      => LET p == pass[w]
             c == Cluster(p)
         IN /\ pc[w] \in {"writeback", "done"}
            /\ p.err = "apply"
            /\ c.agentDeployed # "True"
            /\ p.deleteAuthCalls = 0 /\ p.deleteNodeCalls = 0 /\ ~p.cleanupReached
            /\ ~p.committed
            /\ CommitFields(c) = CommitFields(p.given)
            /\ p.refreshCalls = 0
            /\ agentImages = p.imagesAtDecision

C8_Witness ==
  \E w \in Workers :
    /\ pc[w] = "done" /\ pass[w].applyCalls = 5 /\ ~pass[w].applyOk
    /\ pass[w].given.agentDeployed = "True" /\ pass[w].given.forceAnn = "true"

(* C9, as stated: when the apply fails on attempts 1 to 4 and succeeds on
   attempt 5, deployAgent returns no error, the cleanup runs and AgentDeployed
   ends true. *)
C9_FifthAttemptAsStated ==
  \A w \in Workers :
    (pc[w] = "done" /\ pass[w].applyOk /\ pass[w].okAt = 5)
      => /\ pass[w].err = ""
         /\ pass[w].cleanupReached
         /\ Cluster(pass[w]).agentDeployed = "True"

(* C9, amended: when the apply fails on attempts 1 to 4 and succeeds on
   attempt 5, no apply error is escalated and the cleanup stage is entered;
   AgentDeployed ends true unless a companion-resource deletion fails with an
   error other than not-found, and deployAgent returns an error only for such
   a deletion or for a failed refresh of the image cache. *)
C9_FifthAttempt ==
  \A w \in Workers :
    (pass[w].applyOk /\ pass[w].okAt = 5)
      => LET p == pass[w]
         IN /\ ~p.applyEscalated /\ p.err # "apply"
            /\ pc[w] # "apply"
            /\ pc[w] = "done"
                 => /\ p.cleanupReached
                    /\ p.err \in {"", "deleteAuth", "deleteNode", "cacheAgentImages"}
                    /\ p.err \notin {"deleteAuth", "deleteNode"}
                         <=> Cluster(p).agentDeployed = "True"

C9_Witness ==
  \E w \in Workers :
    /\ pc[w] = "done" /\ pass[w].applyOk /\ pass[w].okAt = 5
    /\ pass[w].err = "" /\ Cluster(pass[w]).agentDeployed = "True"

(* C10, as stated: after every successful apply the deletion of the auth
   workload is attempted whatever the auth-endpoint settings, and that of the
   node-level workload exactly when the driver is not RKE. *)
C10_CleanupAsStated ==
  \A w \in Workers :
    (pc[w] = "done" /\ pass[w].applyOk)
      => /\ pass[w].deleteAuthCalls = 1
         /\ pass[w].deleteNodeCalls = 1 <=> pass[w].given.driver # ClusterDriverRKE

(* C10, amended: after a successful apply the deletion of the auth workload is
   attempted exactly when the spec's auth endpoint is disabled, the
   last-applied spec's is enabled and a recorded auth image exists; that of the
   node-level workload exactly when the driver is not RKE and the auth
   deletion did not fail with an error other than not-found. *)
C10_Cleanup ==
  \A w \in Workers :
    (pc[w] = "done" /\ pass[w].applyOk)
      => LET p == pass[w]
             g == p.given
         IN /\ p.deleteAuthCalls = IF ~g.authEnabled /\ g.appliedAuthEnabled /\ g.authImage # ""
                                   THEN 1 ELSE 0
            /\ p.deleteNodeCalls = IF g.driver # ClusterDriverRKE /\ p.err # "deleteAuth"
                                   THEN 1 ELSE 0

C10_Witness ==
  \E w \in Workers :
    /\ pc[w] = "done" /\ pass[w].applyOk
    /\ pass[w].deleteAuthCalls = 1 /\ pass[w].deleteNodeCalls = 1

----------------------------------------------------------------------------
(* The taint collection on its own: cacheControlPlaneTaints called on every
   node list of the sets below *)

NodeLabels ==
  {[l \in {"node-role.kubernetes.io/controlplane"} |-> "true"],
   [l \in {"node-role.kubernetes.io/master"} |-> "true"],
   [l \in {"node-role.kubernetes.io/control-plane"} |-> "false"],
   [l \in {"node-role.kubernetes.io/worker"} |-> "true"]}

NodeTaintLists ==
  UNION {PermsOf(S) : S \in {T \in SUBSET {TaintEtcd, TaintCP, TaintUnreachable, TaintWorker} :
                                 Cardinality(T) <= 2}}

NodesOfCluster == {[labels |-> l, taints |-> t] : l \in NodeLabels, t \in NodeTaintLists}

AllNodeLists == UNION {[1..k -> NodesOfCluster] : k \in 0..MaxNodes}

(* a worker about to evaluate line 147 with an empty taint cache *)
InitTaints ==
  LET c == DeployedCluster("c1", ClusterDriverRKE, FALSE)
  IN /\ store = [x \in Names |-> c]
     /\ nodes \in [Names -> AllNodeLists]
     /\ remote = [x \in Names |-> RemoteOf(c)]
     /\ agentImages = [x \in {nodeImage, clusterImage} |-> NoEntries]
     /\ controlPlaneTaints = NoEntries
     /\ serverURL = "https://rancher.local"
     /\ pc = [w \in Workers |-> "cacheTaints"]
     /\ pass = [w \in Workers |->
                 [IdlePass EXCEPT !.name = c.name, !.given = c, !.orig = c, !.copy = c]]
     /\ hist = [x \in Names |-> NoHist]
     /\ budget = [passes |-> 0, env |-> 0]

NextTaints == \E w \in Workers : CacheTaints(w)

SpecTaints == InitTaints /\ [][NextTaints]_vars

----------------------------------------------------------------------------
(* Two workers on the same cluster key. The framework is expected to run one
   pass per key at a time; here it does not, and every acquisition of a cache
   lock and every remote read is a step of its own. The inputs (the stored
   spec, the nodes, the settings) do not change; the downstream workloads
   change only by what the passes apply and delete. *)

OverlapWorkers == {"w1", "w2"}

(* One start of the process: the stored object, the nodes, the taint cache an
   earlier run may have left, and the server URL setting *)
OverlapCase(c, nl, taints, url) == [cluster |-> c, nodes |-> nl, taints |-> taints, url |-> url]

OverlapCases(name) ==
  LET forced(d) == [DeployedCluster(name, d, FALSE) EXCEPT !.forceAnn = "true"]
      upgraded(d) == [DeployedCluster(name, d, FALSE) EXCEPT !.desiredAgentImage = OtherAgentImage]
      earlier == MapPut(NoEntries, name, <<TaintWorker>>)
      url == "https://rancher.local"
      mixed == <<ControlPlaneNode(<<TaintEtcd>>), WorkerNode(<<TaintWorker>>)>>
      planes == <<ControlPlaneNode(<<TaintEtcd, TaintUnreachable>>), ControlPlaneNode(<<TaintCP, TaintEtcd>>)>>
  IN {OverlapCase(forced(ClusterDriverImported), mixed, NoEntries, url),
      OverlapCase(upgraded(ClusterDriverRKE), planes, earlier, url),
      OverlapCase(forced(ClusterDriverRKE), <<>>, NoEntries, url),
      OverlapCase(upgraded(ClusterDriverImported), mixed, NoEntries, "")}

InitOverlap ==
  \E n \in Names : \E k \in OverlapCases(n) :
    /\ store = [x \in Names |-> k.cluster]
    /\ nodes = [x \in Names |-> k.nodes]
    /\ remote = [x \in Names |-> RemoteOf(k.cluster)]
    /\ agentImages = [x \in {nodeImage, clusterImage} |-> NoEntries]
    /\ controlPlaneTaints = k.taints
    /\ serverURL = k.url
    /\ pc = [w \in OverlapWorkers |-> "idle"]
    /\ pass = [w \in OverlapWorkers |-> IdlePass]
    /\ hist = [x \in Names |-> NoHist]
    /\ budget = [passes |-> 2 + MaxFollowingPasses, env |-> 0, overlap |-> FALSE]

(* sync, lines 77-101. The first two passes start whatever the other worker
   does; the passes that follow them run one at a time. overlap records
   whether the passes now running have shared any of their time *)
SyncOverlapping(w, n) ==
  /\ pc[w] = "idle"
  /\ budget.passes > 0
  /\ \/ budget.passes > MaxFollowingPasses
     \/ \A v \in OverlapWorkers \ {w} : pc[v] = "idle"
  /\ budget' = [budget EXCEPT !.passes = @ - 1,
                              !.overlap = \E v \in OverlapWorkers \ {w} : pc[v] # "idle"]
  /\ LET p0 == [IdlePass EXCEPT !.name = n, !.given = store[n], !.orig = store[n]]
         p1 == DeepCopy(p0)
     IN Goto(w, "doSync", WithCluster(p1, NormaliseStrategy(Cluster(p1))))
  /\ UNCHANGED <<store, nodes, remote, agentImages, controlPlaneTaints, serverURL, hist>>

(* doSync, line 141: agentImagesCached takes the read lock once *)
AgentImagesCachedStep(w) ==
  /\ pc[w] = "cacheImages"
  /\ LET p == pass[w]
     IN IF Cluster(p).agentImage # "" /\ ~agentImagesCached(agentImages, p.name)
        THEN Goto(w, "getNodeAgentImage", [p EXCEPT !.cacheImagesCalls = @ + 1, !.ret = "cacheTaints"])
        ELSE Goto(w, "cacheTaints", p)
  /\ UNCHANGED <<store, nodes, remote, agentImages, controlPlaneTaints, serverURL, hist, budget>>

(* deployAgent, line 347: cacheAgentImages is entered *)
RefreshStep(w) ==
  /\ pc[w] = "refresh"
  /\ Goto(w, "getNodeAgentImage", [pass[w] EXCEPT !.refreshCalls = @ + 1, !.ret = "commit"])
  /\ UNCHANGED <<store, nodes, remote, agentImages, controlPlaneTaints, serverURL, hist, budget>>

(* cacheAgentImages, lines 468-471: the node agent DaemonSet is read *)
GetNodeAgentImageStep(w) ==
  /\ pc[w] = "getNodeAgentImage"
  /\ \/ Goto(w, "getClusterAgentImage", [pass[w] EXCEPT !.na = remote[pass[w].name].na])
     \/ Fail(w, pass[w], "cacheAgentImages")
  /\ UNCHANGED <<store, nodes, remote, agentImages, controlPlaneTaints, serverURL, hist, budget>>

(* cacheAgentImages, lines 473-476: the cluster agent Deployment is read *)
GetClusterAgentImageStep(w) ==
  /\ pc[w] = "getClusterAgentImage"
  /\ \/ Goto(w, "setAgentImages", [pass[w] EXCEPT !.ca = remote[pass[w].name].ca])
     \/ Fail(w, pass[w], "cacheAgentImages")
  /\ UNCHANGED <<store, nodes, remote, agentImages, controlPlaneTaints, serverURL, hist, budget>>

(* cacheAgentImages, lines 478-482: both entries written under the lock *)
SetAgentImagesStep(w) ==
  /\ pc[w] = "setAgentImages"
  /\ agentImages' = setAgentImages(agentImages, pass[w].name, pass[w].na, pass[w].ca)
  /\ Goto(w, pass[w].ret, pass[w])
  /\ UNCHANGED <<store, nodes, remote, controlPlaneTaints, serverURL, hist, budget>>

(* doSync, line 147, and cacheControlPlaneTaints, lines 530-533: the presence
   test under the read lock, then the taints of the nodes *)
ControlPlaneTaintsCachedStep(w) ==
  /\ pc[w] = "cacheTaints"
  /\ LET p == pass[w]
         q == [p EXCEPT !.cacheTaintsCalls = @ + 1]
     IN IF ~controlPlaneTaintsCached(controlPlaneTaints, p.name)
        THEN \/ \E ts \in getControlPlaneTaints(nodes[p.name]) :
                  Goto(w, "setControlPlaneTaints", [q EXCEPT !.taints = ts])
             \/ Fail(w, q, "cacheControlPlaneTaints")
        ELSE Goto(w, "deployAgent", p)
  /\ UNCHANGED <<store, nodes, remote, agentImages, controlPlaneTaints, serverURL, hist, budget>>

(* cacheControlPlaneTaints, lines 535-538: the entry written under the lock *)
SetControlPlaneTaintsStep(w) ==
  /\ pc[w] = "setControlPlaneTaints"
  /\ controlPlaneTaints' = setControlPlaneTaints(controlPlaneTaints, pass[w].name, pass[w].taints)
  /\ Goto(w, "deployAgent", pass[w])
  /\ UNCHANGED <<store, nodes, remote, agentImages, serverURL, hist, budget>>

(* redeployAgent, lines 182-214: the facets of the object, then getAgentImages
   under the read lock and the comparison of line 215 *)
GetAgentImagesStep(w) ==
  /\ pc[w] = "redeploy"
  /\ LET p == pass[w]
         d == redeployAgent(Cluster(p), p.desiredAgent, p.desiredAuth, p.desiredFeatures,
                            p.desiredTaints, agentImages, controlPlaneTaints)
         q == [p EXCEPT !.imagesBefore = agentImages]
     IN IF d.reason \in {"notDeployed", "facets"}
        THEN Goto(w, "kubeConfig", [q EXCEPT !.decision = "true", !.reason = d.reason])
        ELSE IF d.reason = "imageCache"
        THEN Goto(w, "clearAgentImages", [q EXCEPT !.decision = "true", !.reason = d.reason])
        ELSE Goto(w, "getCachedTaints", q)
  /\ UNCHANGED <<store, nodes, remote, agentImages, controlPlaneTaints, serverURL, hist, budget>>

(* redeployAgent, lines 219-220: clearAgentImages takes the lock anew *)
ClearAgentImagesStep(w) ==
  /\ pc[w] = "clearAgentImages"
  /\ agentImages' = clearAgentImages(agentImages, pass[w].name)
  /\ Goto(w, "kubeConfig", pass[w])
  /\ UNCHANGED <<store, nodes, remote, controlPlaneTaints, serverURL, hist, budget>>

(* redeployAgent, lines 225-244: getCachedTaints under the read lock, the
   difference, and the env vars; the images are those read at line 214 *)
GetCachedTaintsStep(w) ==
  /\ pc[w] = "getCachedTaints"
  /\ LET p == pass[w]
         d == redeployAgent(Cluster(p), p.desiredAgent, p.desiredAuth, p.desiredFeatures,
                            p.desiredTaints, p.imagesBefore, controlPlaneTaints)
         q == [p EXCEPT !.taintsBefore = controlPlaneTaints, !.reason = d.reason,
                        !.decision = IF d.result THEN "true" ELSE "false"]
     IN IF d.reason = "taintCache"
        THEN Goto(w, "clearControlPlaneTaints", q)
        ELSE IF d.result THEN Goto(w, "kubeConfig", q) ELSE Goto(w, "netpol", q)
  /\ UNCHANGED <<store, nodes, remote, agentImages, controlPlaneTaints, serverURL, hist, budget>>

(* redeployAgent, lines 233-234: clearControlPlaneTaints takes the lock anew *)
ClearControlPlaneTaintsStep(w) ==
  /\ pc[w] = "clearControlPlaneTaints"
  /\ controlPlaneTaints' = clearControlPlaneTaints(controlPlaneTaints, pass[w].name)
  /\ Goto(w, "kubeConfig", pass[w])
  /\ UNCHANGED <<store, nodes, remote, agentImages, serverURL, hist, budget>>

NextOverlap ==
  \/ \E w \in OverlapWorkers, n \in Names : SyncOverlapping(w, n)
  \/ \E w \in OverlapWorkers : DoSync(w)
  \/ \E w \in OverlapWorkers : SysAcct(w)
  \/ \E w \in OverlapWorkers : AgentImagesCachedStep(w)
  \/ \E w \in OverlapWorkers : GetNodeAgentImageStep(w)
  \/ \E w \in OverlapWorkers : GetClusterAgentImageStep(w)
  \/ \E w \in OverlapWorkers : SetAgentImagesStep(w)
  \/ \E w \in OverlapWorkers : ControlPlaneTaintsCachedStep(w)
  \/ \E w \in OverlapWorkers : SetControlPlaneTaintsStep(w)
  \/ \E w \in OverlapWorkers : DeployAgent(w)
  \/ \E w \in OverlapWorkers : GetAgentImagesStep(w)
  \/ \E w \in OverlapWorkers : ClearAgentImagesStep(w)
  \/ \E w \in OverlapWorkers : GetCachedTaintsStep(w)
  \/ \E w \in OverlapWorkers : ClearControlPlaneTaintsStep(w)
  \/ \E w \in OverlapWorkers : KubeConfig(w)
  \/ \E w \in OverlapWorkers : GetYAML(w)
  \/ \E w \in OverlapWorkers : Apply(w)
  \/ \E w \in OverlapWorkers : DeleteAuth(w)
  \/ \E w \in OverlapWorkers : DeleteNode(w)
  \/ \E w \in OverlapWorkers : RefreshStep(w)
  \/ \E w \in OverlapWorkers : Commit(w)
  \/ \E w \in OverlapWorkers : NetPol(w)
  \/ \E w \in OverlapWorkers : Writeback(w)
  \/ \E w \in OverlapWorkers : Return(w)

SpecOverlap == InitOverlap /\ [][NextOverlap]_vars

----------------------------------------------------------------------------
(* Properties, continued *)

(* C11, as stated: when a companion-resource deletion of a pass came back
   "not found" and none failed otherwise, AgentDeployed ends true and the
   state commit runs; when a deletion failed with another error, deployAgent
   returns that error, AgentDeployed ends not true and the commit is skipped. *)
C11_NotFoundAsStated ==
  \A w \in Workers :
    pc[w] = "done"
      => LET p == pass[w]
             outs == {p.authOut, p.nodeOut}
         IN /\ ("notFound" \in outs /\ "error" \notin outs)
                 => Cluster(p).agentDeployed = "True" /\ p.committed
            /\ "error" \in outs
                 => /\ p.err \in {"deleteAuth", "deleteNode"}
                    /\ Cluster(p).agentDeployed # "True"
                    /\ ~p.committed

(* The effective value of a feature flag: a missing key counts as false *)
EffectiveFlag(mp, k) == k \in DOMAIN mp.m /\ mp.m[k]

(* C12: agentFeaturesChanged(A, B) is false exactly when every key present in
   either map has the same effective value in both, a missing key counting as
   false; and when no other facet of the decision fires, redeployAgent returns
   true for the feature facet exactly when the maps differ in that sense. *)
C12_FeaturesChangedIff ==
  \A w \in Workers :
    LET p == pass[w]
        c == Cluster(p)
        A == p.desiredFeatures
        B == c.agentFeatures
        differ == \E k \in (DOMAIN A.m) \cup (DOMAIN B.m) : EffectiveFlag(A, k) # EffectiveFlag(B, k)
    IN /\ agentFeaturesChanged(A, B) <=> differ
       /\ (/\ p.decision # "none" /\ c.agentDeployed = "True" /\ c.forceAnn # "true"
           /\ c.agentImage = p.desiredAgent /\ c.authImage = p.desiredAuth
           /\ ~repoChange(c))
            => (p.reason = "facets" <=> differ)

C12_Witness ==
  \E w \in Workers :
    /\ pc[w] = "kubeConfig" /\ pass[w].reason = "facets"
    /\ pass[w].desiredFeatures = EmptyMap
    /\ Cluster(pass[w]).agentFeatures = MapOf("x", TRUE)
    /\ Cluster(pass[w]).forceAnn = NoAnn
    /\ Cluster(pass[w]).agentImage = pass[w].desiredAgent
    /\ Cluster(pass[w]).authImage = pass[w].desiredAuth

(* The first registry the last-applied spec records, or nil *)
AppliedRepo(c) ==
  IF c.appliedRke /\ Len(c.appliedPrivateRegistries) > 0
  THEN c.appliedPrivateRegistries[1] ELSE NoRepo

(* C13, as stated: the private-registry facet is true exactly when the desired
   primary registry and the first last-applied registry differ, a nil side
   against a non-nil one counting as a difference. *)
C13_RepoChangeAsStated ==
  \A w \in Workers :
    pass[w].decision # "none"
      => (repoChange(Cluster(pass[w]))
            <=> GetPrivateRepo(Cluster(pass[w])) # AppliedRepo(Cluster(pass[w])))

(* C14: when AgentDeployed is not true, redeployAgent returns true whatever
   the images, feature maps, registries, caches, taints and env vars are. *)
C14_NotDeployedRedeploys ==
  \A w \in Workers :
    (pass[w].decision # "none" /\ Cluster(pass[w]).agentDeployed # "True")
      => pass[w].decision = "true" /\ pc[w] = "kubeConfig"

C14_Witness ==
  \E w \in Workers :
    LET p == pass[w]
    IN /\ pc[w] = "kubeConfig" /\ Cluster(p).agentDeployed = "False"
       /\ ~redeployAgent([Cluster(p) EXCEPT !.agentDeployed = "True"], p.desiredAgent,
                         p.desiredAuth, p.desiredFeatures, p.desiredTaints,
                         p.imagesBefore, p.taintsBefore).result

(* Scenario 2: nothing differs between the cluster, the desired values and the
   caches the decision read *)
NothingDiffers(p) ==
  LET c == Cluster(p)
      n == p.name
  IN /\ c.agentDeployed = "True"
     /\ c.forceAnn = NoAnn
     /\ c.agentImage = p.desiredAgent /\ c.authImage = p.desiredAuth
     /\ DOMAIN p.desiredFeatures.m = {} /\ DOMAIN c.agentFeatures.m = {}
     /\ GetPrivateRepo(c) = AppliedRepo(c)
     /\ HasImageEntries(p.imagesBefore, n)
     /\ p.imagesBefore[nodeImage][n] = c.agentImage
     /\ p.imagesBefore[clusterImage][n] = c.agentImage
     /\ n \in DOMAIN p.taintsBefore
     /\ SeqToSet(p.taintsBefore[n]) = SeqToSet(p.desiredTaints)
     /\ c.agentEnvVars = c.appliedAgentEnvVars

(* C15: with AgentDeployed true, no force-deploy annotation, recorded images
   equal to the desired ones, empty feature maps, no registry difference,
   cached images equal to the recorded agent image, cached taints equal to the
   desired taints as a set and env vars equal to the applied ones,
   redeployAgent returns false (and leaves both caches as they were). *)
C15_NothingDiffersNoRedeploy ==
  \A w \in Workers :
    (pass[w].decision # "none" /\ NothingDiffers(pass[w]))
      => /\ pass[w].decision = "false"
         /\ agentImages = pass[w].imagesBefore
         /\ controlPlaneTaints = pass[w].taintsBefore

C15_Witness ==
  \E w \in Workers :
    /\ pass[w].decision = "false" /\ NothingDiffers(pass[w])
    /\ Len(pass[w].desiredTaints) = 2
    /\ pass[w].taintsBefore[pass[w].name] # pass[w].desiredTaints

(* C16: the create-system-account action is invoked at most once in a pass
   and only when SystemAccountCreated is not true on the object the pass was
   given; a pass leaves a true SystemAccountCreated true; every pass on a live,
   provisioned cluster with at least one node whose node listing succeeded
   invokes it exactly when the condition is not true; and a pass in which the
   action fails returns that error with no cache populated, no decision taken
   and nothing applied. *)
C16_SystemAccountUntilTrue ==
  \A w \in Workers :
    LET p == pass[w]
    IN /\ p.sysAcctCalls <= 1
       /\ p.sysAcctCalls = 1 => p.given.sysAcct # "True"
       /\ (pc[w] # "idle" /\ Live(p) /\ p.given.sysAcct = "True") => Cluster(p).sysAcct = "True"
       /\ (/\ pc[w] = "done" /\ Live(p) /\ p.given.provisioned = "True"
           /\ Len(nodes[p.name]) > 0 /\ p.err # "listNodes")
            => p.sysAcctCalls = IF p.given.sysAcct # "True" THEN 1 ELSE 0
       /\ p.err = "createSystemAccount"
            => /\ pc[w] \in {"writeback", "done"}
               /\ Cluster(p).sysAcct # "True"
               /\ p.cacheImagesCalls = 0 /\ p.cacheTaintsCalls = 0
               /\ p.decision = "none" /\ p.doCalls = 0 /\ p.applyCalls = 0
               /\ pc[w] = "done" => Returned(p) = "createSystemAccount"

C16_Witness ==
  \E w \in Workers :
    /\ pc[w] = "done" /\ pass[w].given.sysAcct = "False"
    /\ pass[w].sysAcctCalls = 1 /\ Cluster(pass[w]).sysAcct = "True"

(* The errors an AgentDeployed.Do action returns *)
DoErrors ==
  {"getOrCreateSystemClusterToken", "serverURL", "systemTemplate", "apply",
   "deleteAuth", "deleteNode"}

(* C17, as stated: a pass given a cluster whose AgentDeployed condition is
   true ends with the condition true and without having invoked its action. *)
C17_StickyAsStated ==
  \A w \in Workers :
    (pc[w] = "done" /\ Live(pass[w]) /\ pass[w].given.agentDeployed = "True")
      => Cluster(pass[w]).agentDeployed = "True" /\ pass[w].doCalls = 0

(* C17, amended: Provisioned and SystemAccountCreated are sticky (a pass given
   them true leaves them true, and the system-account action is not invoked);
   the AgentDeployed action is invoked exactly by the passes that decide to
   redeploy and obtain a kubeconfig, also when the condition is true; a pass
   given AgentDeployed true leaves it true when it does not invoke the action
   or the action succeeds, and not true exactly when the action fails
   (rendering, apply or a deletion error other than not-found). *)
C17_StickyUnlessRedeployFails ==
  \A w \in Workers :
    (pc[w] = "done" /\ Live(pass[w]))
      => LET p == pass[w]
             c == Cluster(p)
         IN /\ p.given.provisioned = "True" => c.provisioned = "True"
            /\ p.given.sysAcct = "True" => c.sysAcct = "True" /\ p.sysAcctCalls = 0
            /\ p.doCalls = IF p.decision = "true" /\ p.err # "getKubeConfig" THEN 1 ELSE 0
            /\ p.given.agentDeployed = "True"
                 => /\ c.agentDeployed \in {"True", "False"}
                    /\ c.agentDeployed = "False" <=> (p.doCalls = 1 /\ p.err \in DoErrors)

C17_Witness ==
  \E w \in Workers :
    /\ pc[w] = "done" /\ pass[w].given.agentDeployed = "True"
    /\ pass[w].doCalls = 1 /\ pass[w].err = "apply"
    /\ store[pass[w].name].agentDeployed = "False"

(* C18, as stated: a pass that finds the server URL unset when it renders the
   manifest schedules a delayed re-check, applies nothing and commits nothing,
   and does not turn AgentDeployed to the failed state: the condition is False
   afterwards only if it was False before. *)
C18_ServerURLAsStated ==
  \A w \in Workers :
    pass[w].err = "serverURL"
      => /\ pass[w].enqueued
         /\ pass[w].applyCalls = 0
         /\ ~pass[w].committed
         /\ Cluster(pass[w]).agentDeployed = "False" => pass[w].given.agentDeployed = "False"

(* C19, as stated: an entry that was set counts as present whatever its value,
   so a pass that finds entries for the cluster in the image cache, or an
   entry in the taint cache, does not derive them again from the downstream
   cluster or the node list. *)
C19_AbsentVsEmptyAsStated ==
  \A w \in Workers :
    /\ pass[w].imagesEntryAtCheck => pass[w].cacheImagesCalls = 0
    /\ pass[w].taintsEntryAtCheck => pass[w].cacheTaintsCalls = 0

(* C20, as stated: when the Update of a pass fails, sync returns that
   persistence error, also when the deployment step failed too; and what the
   deployment step did stays (the applied manifest downstream). *)
C20_UpdateErrorAsStated ==
  \A w \in Workers :
    (pc[w] = "done" /\ pass[w].updateErr # "")
      => /\ Returned(pass[w]) = pass[w].updateErr
         /\ pass[w].applyOk => remote[pass[w].name].ca = pass[w].desiredAgent

(* A cache map without the entry of one cluster, every other entry as it was *)
SameButFor(after, before, name) ==
  /\ DOMAIN after = (DOMAIN before) \ {name}
  /\ \A x \in DOMAIN after : after[x] = before[x]

(* C22: redeployAgent changes a cache only in the image-mismatch outcome (the
   image cache loses the entries of the evaluated cluster, the taint cache is
   untouched) and in the taint-mismatch outcome (the taint cache loses the
   entry of the evaluated cluster, the image cache is untouched); when it
   returns true for a not-true condition, the force-deploy annotation, an
   image, feature or registry difference or an env-var difference, and when
   it returns false, both caches are as before; entries of other clusters
   are never touched. *)
C22_CacheFrame ==
  \A w \in Workers :
    pass[w].decision # "none"
      => LET p == pass[w]
             c == Cluster(p)
             n == p.name
             early == \/ c.agentDeployed # "True"
                      \/ c.forceAnn = "true"
                      \/ c.agentImage # p.desiredAgent \/ c.authImage # p.desiredAuth
                      \/ agentFeaturesChanged(p.desiredFeatures, c.agentFeatures)
                      \/ repoChange(c)
         IN /\ early => p.reason \in {"notDeployed", "facets"}
            /\ p.reason \in {"notDeployed", "facets", "envVars", "none"}
                 => agentImages = p.imagesBefore /\ controlPlaneTaints = p.taintsBefore
            /\ p.reason = "imageCache"
                 => /\ controlPlaneTaints = p.taintsBefore
                    /\ SameButFor(agentImages[nodeImage], p.imagesBefore[nodeImage], n)
                    /\ SameButFor(agentImages[clusterImage], p.imagesBefore[clusterImage], n)
            /\ p.reason = "taintCache"
                 => /\ agentImages = p.imagesBefore
                    /\ SameButFor(controlPlaneTaints, p.taintsBefore, n)
            /\ \A x \in DOMAIN p.taintsBefore \ {n} :
                  x \in DOMAIN controlPlaneTaints /\ controlPlaneTaints[x] = p.taintsBefore[x]
            /\ \A k \in {nodeImage, clusterImage} :
                  \A x \in DOMAIN p.imagesBefore[k] \ {n} :
                    x \in DOMAIN agentImages[k] /\ agentImages[k][x] = p.imagesBefore[k][x]

C22_Witness ==
  \E w \in Workers :
    /\ pc[w] = "kubeConfig" /\ pass[w].reason = "taintCache"
    /\ pass[w].name \in DOMAIN pass[w].taintsBefore
    /\ pass[w].name \notin DOMAIN controlPlaneTaints
    /\ OtherName \in DOMAIN controlPlaneTaints
    /\ OtherName \in DOMAIN agentImages[nodeImage]

(* The nodes that carry a recognized control-plane role label with value "true" *)
ControlPlaneIndexes(nl) ==
  {i \in 1..Len(nl) :
     \E l \in {"node-role.kubernetes.io/master", "node-role.kubernetes.io/controlplane",
                "node-role.kubernetes.io/control-plane"} :
        l \in DOMAIN nl[i].labels /\ nl[i].labels[l] = "true"}

(* The taints the collection is to return, as a set *)
ExpectedTaints(nl) ==
  {t \in UNION {SeqToSet(nl[i].taints) : i \in ControlPlaneIndexes(nl)} :
     ~HasReservedPrefix(t.key)}

(* Where a returned taint first occurs: the first control-plane node that has
   it, and its place in that node's list *)
FirstNode(nl, t) ==
  CHOOSE i \in ControlPlaneIndexes(nl) :
    /\ t \in SeqToSet(nl[i].taints)
    /\ \A j \in ControlPlaneIndexes(nl) : t \in SeqToSet(nl[j].taints) => i <= j

FirstPlace(nl, t) ==
  CHOOSE k \in 1..Len(nl[FirstNode(nl, t)].taints) :
    /\ nl[FirstNode(nl, t)].taints[k] = t
    /\ \A m \in 1..Len(nl[FirstNode(nl, t)].taints) :
          nl[FirstNode(nl, t)].taints[m] = t => k <= m

(* the result of a successful collection, and the node list it was made from *)
Collected(w) == controlPlaneTaints[pass[w].name]

ExactlyTheControlPlaneTaints(w) ==
  LET r == Collected(w)
      nl == nodes[pass[w].name]
  IN /\ SeqToSet(r) = ExpectedTaints(nl)
     /\ \A a, b \in 1..Len(r) : a # b => r[a] # r[b]

(* C23, as stated: the result holds exactly the distinct control-plane taints
   without the reserved prefix, none twice, in order of first occurrence
   along the node iteration (node by node, and within a node in the order of
   its taint list). *)
C23_TaintsInOrderAsStated ==
  \A w \in Workers :
    (pc[w] = "deployAgent" /\ pass[w].cacheTaintsCalls = 1)
      => LET r == Collected(w)
             nl == nodes[pass[w].name]
         IN /\ ExactlyTheControlPlaneTaints(w)
            /\ \A a, b \in 1..Len(r) :
                  a < b => \/ FirstNode(nl, r[a]) < FirstNode(nl, r[b])
                           \/ /\ FirstNode(nl, r[a]) = FirstNode(nl, r[b])
                              /\ FirstPlace(nl, r[a]) < FirstPlace(nl, r[b])

(* C23, amended: the result holds exactly the distinct control-plane taints
   without the reserved prefix, none twice; a taint first seen on an earlier
   node precedes every taint first seen on a later node, and the taints first
   seen on the same node follow each other in no fixed order. *)
C23_TaintsByNode ==
  \A w \in Workers :
    (pc[w] = "deployAgent" /\ pass[w].cacheTaintsCalls = 1)
      => LET r == Collected(w)
             nl == nodes[pass[w].name]
         IN /\ ExactlyTheControlPlaneTaints(w)
            /\ \A a, b \in 1..Len(r) :
                  a < b => FirstNode(nl, r[a]) <= FirstNode(nl, r[b])

C23_Witness ==
  \E w \in Workers :
    LET nl == nodes[pass[w].name]
    IN /\ pc[w] = "deployAgent" /\ pass[w].cacheTaintsCalls = 1
       /\ Len(nl) = 2 /\ ControlPlaneIndexes(nl) = {1, 2}
       /\ nl[1].taints = <<TaintEtcd, TaintUnreachable>>
       /\ nl[2].taints = <<TaintCP, TaintEtcd>>
       /\ Collected(w) = <<TaintEtcd, TaintCP>>

(* What the downstream cluster and the nodes hold, against what the caches
   return for the cluster *)
CacheIsGroundTruth(n) ==
  /\ getAgentImages(agentImages, n) = remote[n]
  /\ n \in DOMAIN controlPlaneTaints
  /\ \A ts \in getControlPlaneTaints(nodes[n]) : SeqToSet(controlPlaneTaints[n]) = SeqToSet(ts)

(* A pass that has just ended, ran alone from start to end, returned no error
   and decided that nothing is to be redeployed: with the inputs unchanged,
   every later pass finds what this one found *)
SettledAlone(w) ==
  /\ pc[w] = "done"
  /\ \A v \in DOMAIN pc \ {w} : pc[v] = "idle"
  /\ ~budget.overlap
  /\ Returned(pass[w]) = ""
  /\ pass[w].decision = "false"

(* C21, as stated: whatever two overlapping passes for one cluster did, the two
   image entries of the cluster are present together or absent together, and
   the passes that follow with unchanged inputs settle only in a state where
   the caches return the ground truth: a pass that runs alone and ends without
   error with the decision false leaves the cached images equal to the
   downstream images and the cached taints equal to the taints of the nodes. *)
C21_OverlapConvergesAsStated ==
  /\ \A n \in Names : n \in DOMAIN agentImages[nodeImage] <=> n \in DOMAIN agentImages[clusterImage]
  /\ \A w \in DOMAIN pc : SettledAlone(w) => CacheIsGroundTruth(pass[w].name)

====
